---- MODULE Spec2Model ----
(***************************************************************************)
(* Gap detection, segmentation, resampling and trace assembly of           *)
(* valveData.py: detectGap (lines 839-863), splitData (lines 865-965) and  *)
(* data2obspy (lines 967-1022).                                            *)
(*                                                                         *)
(* Timestamps are whole seconds (UTCDateTime values), kept as integers.    *)
(* A matplotlib day number is kept exactly and in the same unit as the     *)
(* timestamps, so date2num and num2date are the shift between the two      *)
(* origins; floating point rounding of the day number is not modelled.     *)
(* numpy float64 results of interp are kept as exact fractions [num, den]. *)
(*                                                                         *)
(* Python lists are sequences; Python indices are 0-based and are kept     *)
(* 0-based wherever the code computes with them (gapIndex holds 0-based    *)
(* indices, startSamp and endSamp are 0-based).                            *)
(***************************************************************************)
EXTENDS Integers, Sequences, FiniteSets, TLC

VARIABLES
    date,         \* list of timestamps given to detectGap / splitData
    data,         \* list of values given to splitData
    gapThres,     \* detectGap's threshold in seconds
    delta,        \* splitData's delta in seconds
    resample,     \* splitData's resample flag
    gapIndex,     \* list of 0-based gap indices handed to splitData
    gapSource,    \* "none", "detectGap" (returned by detectGap) or "caller"
    pc,           \* "input", "gaps", "split", "stream"
    slicedDates,  \* splitData's first return value
    slicedData,   \* splitData's second return value
    raised,       \* TRUE when splitData ended by raising an exception
    segGap,       \* history: for each emitted segment, the loop index ind of
                  \* the gap it was cut in front of (len(gapIndex) for the
                  \* window after the last gap or the whole series)
    skipped,      \* history: the loop indices of the windows not emitted
    interpXp,     \* history: the xp argument of every call of interp
    name,         \* the channel name given to data2obspy, a list of characters
    streamData,   \* data2obspy's return value, the list of traces
    streamRaised  \* TRUE when data2obspy ended by raising an exception

vars == <<date, data, gapThres, delta, resample, gapIndex, gapSource, pc,
          slicedDates, slicedData, raised, segGap, skipped, interpXp,
          name, streamData, streamRaised>>

(***************************************************************************)
(* Bounds of the model.                                                    *)
(***************************************************************************)
MaxLen == 5        \* longest series of the pipeline
MaxTime == 6       \* largest timestamp
MaxThres == 2      \* largest gap threshold
MaxDelta == 2      \* largest resampling interval
MaxAnyLen == 4     \* longest unordered timestamp list given to detectGap alone
MaxNameLen == 7    \* longest channel name given to data2obspy alone

Times == 0..MaxTime

(***************************************************************************)
(* Python and numpy primitives used by the two functions.                  *)
(***************************************************************************)

\* s[a:b] of a Python list, a and b 0-based, negative values counted from
\* the end, both clamped to the list.
PySlice(s, a, b) ==
    LET n  == Len(s)
        na == IF a < 0 THEN a + n ELSE a
        nb == IF b < 0 THEN b + n ELSE b
        lo == IF na < 0 THEN 0 ELSE IF na > n THEN n ELSE na
        hi == IF nb < 0 THEN 0 ELSE IF nb > n THEN n ELSE nb
    IN  IF hi <= lo THEN << >> ELSE SubSeq(s, lo + 1, hi)

\* s[i] of a Python list, i 0-based, negative i counted from the end.
PyItem(s, i) == IF i < 0 THEN s[i + Len(s) + 1] ELSE s[i + 1]

\* numpy.diff: the consecutive differences of a one-dimensional array.
diff(a) == [i \in 1..(Len(a) - 1) |-> a[i + 1] - a[i]]

\* Mutant of whereGreater: the comparison is >= instead of >.
whereGreaterEq(datediff, thres) ==
    SelectSeq([i \in 1..Len(datediff) |-> i - 1],
              LAMBDA j : datediff[j + 1] >= thres)

\* numpy.where(datediff > gapThres)[0]: the 0-based positions, in increasing
\* order, at which the comparison holds.
whereGreater(datediff, thres) ==
    SelectSeq([i \in 1..Len(datediff) |-> i - 1],
              LAMBDA j : datediff[j + 1] > thres)

\* detectGap(date, gapThres); the printing is left out.
detectGap(dates, thres) == whereGreater(diff(dates), thres)

\* The shift between the origin of UTCDateTime (1970-01-01) and the origin
\* of matplotlib's day numbers (day 719163 is 1970-01-01).  The model keeps
\* both axes in the same unit, so the conversion is the shift of origin.
Origin == 719163

\* matplotlib.dates.date2num of one date, and of a list of dates.
date2num(t) == t + Origin
date2numList(dates) == [i \in 1..Len(dates) |-> date2num(dates[i])]

\* UTCDateTime(matplotlib.dates.num2date(d)).
num2date(d) == d - Origin

\* ceil(a / b) for b > 0, as numpy.ceil of the quotient.
CeilDiv(a, b) == -((-a) \div b)

\* numpy.linspace(start, stop, n): n evenly spaced numbers from start to stop
\* inclusive; drange calls it with stop - start a multiple of n - 1.
linspace(start, stop, n) ==
    IF n <= 0 THEN << >>
    ELSE IF n = 1 THEN << start >>
    ELSE [i \in 1..n |-> start + ((i - 1) * (stop - start)) \div (n - 1)]

\* Mutant of drange: the interval is closed, a grid point that falls on
\* dend is kept.
drangeClosed(dstart, dend, step) ==
    LET f1  == date2num(dstart)
        num == (date2num(dend) - f1) \div step
    IN  linspace(f1, f1 + num * step, num + 1)

\* Mutant of drange: the number of steps is rounded down instead of up.
drangeFloor(dstart, dend, step) ==
    LET f1  == date2num(dstart)
        num == (date2num(dend) - f1) \div step
    IN  linspace(f1, f1 + (num - 1) * step, num)

\* matplotlib.dates.drange(dstart, dend, delta): the day numbers dstart,
\* dstart + delta, ... of the half-open interval [dstart, dend).
drange(dstart, dend, step) ==
    LET f1   == date2num(dstart)
        f2   == date2num(dend)
        num0 == CeilDiv(f2 - f1, step)
        end0 == dstart + num0 * step
        over == end0 >= dend
        num  == IF over THEN num0 - 1 ELSE num0
        dinterval_end == IF over THEN end0 - step ELSE end0
    IN  linspace(f1, date2num(dinterval_end), num + 1)

\* Greatest common divisor of two naturals.
RECURSIVE GCD(_, _)
GCD(a, b) == IF b = 0 THEN a ELSE GCD(b, a % b)

\* A float64 value kept as the exact fraction n / d (d > 0) in lowest terms.
Frac(n, d) ==
    LET g == GCD(IF n < 0 THEN -n ELSE n, d)
    IN  [num |-> n \div g, den |-> d \div g]

\* Mutant of interp1: at or left of the first sample point the fill value 0
\* is returned instead of fp[0].
interp1LeftZero(x, xp, fp) ==
    IF x <= xp[1] THEN Frac(0, 1)
    ELSE IF x >= xp[Len(xp)] THEN Frac(fp[Len(fp)], 1)
    ELSE LET j == CHOOSE k \in 1..(Len(xp) - 1) : xp[k] <= x /\ x < xp[k + 1]
         IN  Frac(fp[j] * (xp[j + 1] - xp[j]) + (fp[j + 1] - fp[j]) * (x - xp[j]),
                  xp[j + 1] - xp[j])

\* numpy.interp(x, xp, fp) at one point x, for xp increasing and not empty:
\* fp[0] left of xp[0], fp[-1] right of xp[-1], linear in between.
interp1(x, xp, fp) ==
    IF x <= xp[1] THEN Frac(fp[1], 1)
    ELSE IF x >= xp[Len(xp)] THEN Frac(fp[Len(fp)], 1)
    ELSE LET j == CHOOSE k \in 1..(Len(xp) - 1) : xp[k] <= x /\ x < xp[k + 1]
         IN  Frac(fp[j] * (xp[j + 1] - xp[j]) + (fp[j + 1] - fp[j]) * (x - xp[j]),
                  xp[j + 1] - xp[j])

\* numpy.interp(x, xp, fp) for an array x.
interp(x, xp, fp) == [i \in 1..Len(x) |-> interp1(x[i], xp, fp)]

\* numpy.interp raises ValueError("array of sample points is empty").
interpRaises(xp) == Len(xp) = 0

(***************************************************************************)
(* splitData.  The local state of one call is a record:                    *)
(*   slicedDates, slicedData  the two lists being built,                   *)
(*   raised                   an exception has ended the call,             *)
(*   segGap, skipped, interpXp  the history described at VARIABLES.        *)
(***************************************************************************)
NoSegments ==
    [slicedDates |-> << >>, slicedData |-> << >>, raised |-> FALSE,
     segGap |-> << >>, skipped |-> << >>, interpXp |-> << >>]

\* Mutant of resampleWindow: the dates of the segment are built from the
\* source day numbers dnum instead of the grid dnumnew.
resampleWindowSourceDates(xdates, xvals, dstart, dend, step, ind, out) ==
    LET dnum    == date2numList(xdates)
        dnumnew == drange(dstart, dend, step)
    IN  IF interpRaises(dnum)
        THEN [out EXCEPT !.raised = TRUE, !.interpXp = Append(@, dnum)]
        ELSE LET newdata == interp(dnumnew, dnum, xvals)
                 dvec    == [i \in 1..Len(dnum) |-> num2date(dnum[i])]
             IN  [out EXCEPT !.slicedData = Append(@, newdata),
                             !.slicedDates = Append(@, dvec),
                             !.segGap = Append(@, ind),
                             !.interpXp = Append(@, dnum)]

\* The resampling block (lines 916-923, repeated at 939-946 and 952-959):
\* xdates and xvals are the samples handed to interp, dstart and dend the
\* two dates handed to drange, ind the window being processed.
resampleWindow(xdates, xvals, dstart, dend, step, ind, out) ==
    LET dnum    == date2numList(xdates)
        dnumnew == drange(dstart, dend, step)
    IN  IF interpRaises(dnum)
        THEN [out EXCEPT !.raised = TRUE, !.interpXp = Append(@, dnum)]
        ELSE LET newdata == interp(dnumnew, dnum, xvals)
                 dvec    == [i \in 1..Len(dnumnew) |-> num2date(dnumnew[i])]
             IN  [out EXCEPT !.slicedData = Append(@, newdata),
                             !.slicedDates = Append(@, dvec),
                             !.segGap = Append(@, ind),
                             !.interpXp = Append(@, dnum)]

\* The pass-through block (lines 930-931, 948-949, 961-962).
appendWindow(xdates, xvals, ind, out) ==
    [out EXCEPT !.slicedData = Append(@, xvals),
                !.slicedDates = Append(@, xdates),
                !.segGap = Append(@, ind)]

\* Mutant of gapWindow: a window after a gap starts at the gap index
\* itself, not one sample after it.
gapWindowFromGap(dates, vals, gaps, step, rs, ind, out) ==
    LET startSamp == IF ind = 0 THEN 0 ELSE PyItem(gaps, ind - 1)
        endSamp   == PyItem(gaps, ind) + 1
    IN  IF endSamp - startSamp <= 1
        THEN [out EXCEPT !.skipped = Append(@, ind)]
        ELSE IF rs
        THEN resampleWindow(PySlice(dates, startSamp, endSamp),
                            PySlice(vals, startSamp, endSamp),
                            PyItem(dates, startSamp), PyItem(dates, endSamp - 1),
                            step, ind, out)
        ELSE appendWindow(PySlice(dates, startSamp, endSamp),
                          PySlice(vals, startSamp, endSamp), ind, out)

\* One iteration of the loop over the gaps (lines 906-931), ind 0-based.
gapWindow(dates, vals, gaps, step, rs, ind, out) ==
    LET startSamp == IF ind = 0 THEN 0 ELSE PyItem(gaps, ind - 1) + 1
        endSamp   == PyItem(gaps, ind) + 1
    IN  IF endSamp - startSamp <= 1
        THEN [out EXCEPT !.skipped = Append(@, ind)]
        ELSE IF rs
        THEN resampleWindow(PySlice(dates, startSamp, endSamp),
                            PySlice(vals, startSamp, endSamp),
                            PyItem(dates, startSamp), PyItem(dates, endSamp - 1),
                            step, ind, out)
        ELSE appendWindow(PySlice(dates, startSamp, endSamp),
                          PySlice(vals, startSamp, endSamp), ind, out)

\* for ind in range(len(gapIndex)) (line 905), from iteration ind on.
RECURSIVE gapLoop(_, _, _, _, _, _, _)
gapLoop(dates, vals, gaps, step, rs, ind, out) ==
    IF ind >= Len(gaps) \/ out.raised THEN out
    ELSE gapLoop(dates, vals, gaps, step, rs, ind + 1,
                 gapWindow(dates, vals, gaps, step, rs, ind, out))

\* The window after the last gap (lines 934-949).
lastWindow(dates, vals, gaps, step, rs, out) ==
    LET startSamp == PyItem(gaps, -1) + 1
        datalen   == Len(vals) - PyItem(gaps, -1)
    IN  IF datalen > 1
        THEN IF rs
             THEN resampleWindow(PySlice(dates, startSamp, -1),
                                 PySlice(vals, startSamp, -1),
                                 PyItem(dates, startSamp), PyItem(dates, -1),
                                 step, Len(gaps), out)
             ELSE appendWindow(PySlice(dates, startSamp, -1),
                               PySlice(vals, startSamp, -1), Len(gaps), out)
        ELSE [out EXCEPT !.skipped = Append(@, Len(gaps))]

\* Mutant of wholeSeries: the all-but-last slice of the window after the
\* last gap is used for the whole series too.
wholeSeriesButLast(dates, vals, step, rs, out) ==
    IF rs
    THEN resampleWindow(PySlice(dates, 0, -1), PySlice(vals, 0, -1),
                        PyItem(dates, 0), PyItem(dates, -1), step, 0, out)
    ELSE appendWindow(PySlice(dates, 0, -1), PySlice(vals, 0, -1), 0, out)

\* The series without gaps (lines 951-962).
wholeSeries(dates, vals, step, rs, out) ==
    IF rs
    THEN resampleWindow(dates, vals, PyItem(dates, 0), PyItem(dates, -1),
                        step, 0, out)
    ELSE appendWindow(dates, vals, 0, out)

\* Mutant of splitData: the test for an empty series is missing.
splitDataNoEmptyTest(dates, vals, gaps, step, rs) ==
    LET looped == gapLoop(dates, vals, gaps, step, rs, 0, NoSegments)
    IN  IF looped.raised THEN looped
        ELSE IF Len(gaps) > 0
        THEN lastWindow(dates, vals, gaps, step, rs, looped)
        ELSE wholeSeries(dates, vals, step, rs, looped)

\* splitData(date, data, gapIndex, delta, resample).
splitData(dates, vals, gaps, step, rs) ==
    IF Len(vals) = 0 THEN NoSegments
    ELSE LET looped == gapLoop(dates, vals, gaps, step, rs, 0, NoSegments)
         IN  IF looped.raised THEN looped
             ELSE IF Len(gaps) > 0
             THEN lastWindow(dates, vals, gaps, step, rs, looped)
             ELSE wholeSeries(dates, vals, step, rs, looped)

(***************************************************************************)
(* data2obspy.  A channel name is a list of one-character strings.         *)
(***************************************************************************)

\* name.split('$', maxsplit): the pieces between the first maxsplit '$',
\* the last piece holding the rest of the name.
RECURSIVE split(_, _)
split(nm, maxsplit) ==
    LET at == { i \in 1..Len(nm) : nm[i] = "$" }
    IN  IF maxsplit = 0 \/ at = {} THEN << nm >>
        ELSE LET i == CHOOSE x \in at : \A y \in at : x <= y
             IN  << SubSeq(nm, 1, i - 1) >>
                     \o split(SubSeq(nm, i + 1, Len(nm)), maxsplit - 1)

\* Mutant of parseName: the first unpacking splits at most three times, so
\* that a name with more than three '$' still gives four pieces.
parseNameThreeSplits(nm) ==
    LET p4 == split(nm, 3)
        p3 == split(nm, 3)
        p2 == split(nm, 2)
    IN  IF Len(p4) = 4
        THEN [sta |-> p4[1], chan |-> p4[2], net |-> p4[3], loc |-> p4[4]]
        ELSE IF Len(p3) = 3
        THEN [sta |-> p3[1], chan |-> p3[2], net |-> p3[3], loc |-> << >>]
        ELSE IF Len(p2) = 2
        THEN [sta |-> p2[1], chan |-> p2[2], net |-> << >>, loc |-> << >>]
        ELSE [sta |-> nm, chan |-> << >>, net |-> << >>, loc |-> << >>]

\* Mutant of parseName: with three pieces the second piece is taken as the
\* network and the third as the channel.
parseNameNetworkSecond(nm) ==
    LET p4 == split(nm, 4)
        p3 == split(nm, 3)
        p2 == split(nm, 2)
    IN  IF Len(p4) = 4
        THEN [sta |-> p4[1], chan |-> p4[2], net |-> p4[3], loc |-> p4[4]]
        ELSE IF Len(p3) = 3
        THEN [sta |-> p3[1], chan |-> p3[3], net |-> p3[2], loc |-> << >>]
        ELSE IF Len(p2) = 2
        THEN [sta |-> p2[1], chan |-> p2[2], net |-> << >>, loc |-> << >>]
        ELSE [sta |-> nm, chan |-> << >>, net |-> << >>, loc |-> << >>]

\* The nested try blocks of lines 992-1007: an unpacking into k names
\* raises unless split returns exactly k pieces.
parseName(nm) ==
    LET p4 == split(nm, 4)
        p3 == split(nm, 3)
        p2 == split(nm, 2)
    IN  IF Len(p4) = 4
        THEN [sta |-> p4[1], chan |-> p4[2], net |-> p4[3], loc |-> p4[4]]
        ELSE IF Len(p3) = 3
        THEN [sta |-> p3[1], chan |-> p3[2], net |-> p3[3], loc |-> << >>]
        ELSE IF Len(p2) = 2
        THEN [sta |-> p2[1], chan |-> p2[2], net |-> << >>, loc |-> << >>]
        ELSE [sta |-> nm, chan |-> << >>, net |-> << >>, loc |-> << >>]

\* numpy.round of a difference of two timestamps; timestamps are whole
\* seconds, so the difference is a whole number already.
round(x) == x

\* nowdates[0] or nowdates[1] raises IndexError (lines 1013, 1015).
traceRaises(nowdates) == Len(nowdates) < 2

\* Mutant of traceOf: delta is the span from the first to the last
\* timestamp of the segment.
traceOfSpan(nowdates, nowdata, id) ==
    [station |-> id.sta, network |-> id.net, channel |-> id.chan,
     location |-> id.loc,
     delta |-> round(PyItem(nowdates, -1) - PyItem(nowdates, 0)),
     starttime |-> PyItem(nowdates, 0),
     npts |-> Len(nowdata),
     data |-> nowdata]

\* The trace of one segment (lines 1013-1019).
traceOf(nowdates, nowdata, id) ==
    [station |-> id.sta, network |-> id.net, channel |-> id.chan,
     location |-> id.loc,
     delta |-> round(PyItem(nowdates, 1) - PyItem(nowdates, 0)),
     starttime |-> PyItem(nowdates, 0),
     npts |-> Len(nowdata),
     data |-> nowdata]

\* Mutant of traceLoop: each trace is put in front of the stream.
RECURSIVE traceLoopInFront(_, _, _, _, _)
traceLoopInFront(dates, vals, id, k, out) ==
    IF out.raised \/ k > Len(dates) \/ k > Len(vals) THEN out
    ELSE IF traceRaises(dates[k])
    THEN [out EXCEPT !.raised = TRUE]
    ELSE traceLoopInFront(dates, vals, id, k + 1,
             [out EXCEPT !.traces = << traceOf(dates[k], vals[k], id) >> \o @])

\* for nowdates, nowdata in zip(dates, data) (line 1011), from pair k on.
RECURSIVE traceLoop(_, _, _, _, _)
traceLoop(dates, vals, id, k, out) ==
    IF out.raised \/ k > Len(dates) \/ k > Len(vals) THEN out
    ELSE IF traceRaises(dates[k])
    THEN [out EXCEPT !.raised = TRUE]
    ELSE traceLoop(dates, vals, id, k + 1,
                   [out EXCEPT !.traces = Append(@, traceOf(dates[k], vals[k], id))])

\* data2obspy(dates, data, name).
data2obspy(dates, vals, nm) ==
    traceLoop(dates, vals, parseName(nm), 1, [traces |-> << >>, raised |-> FALSE])

(***************************************************************************)
(* Inputs.                                                                 *)
(***************************************************************************)

\* The channel names of main: 'NPT$HWZ$HV' and 'UWE$radial'.
MainNames ==
    { << "N", "P", "T", "$", "H", "W", "Z", "$", "H", "V" >>,
      << "U", "W", "E", "$", "r", "a", "d", "i", "a", "l" >> }

\* All names of at most MaxNameLen characters over two letters and '$'.
AnyNames == UNION { [1..n -> {"A", "B", "$"}] : n \in 0..MaxNameLen }

\* The gap threshold and the delta of the first test of main.
MainGapThres == 120
MainDelta == 60

\* The timestamps of the end-to-end scenario, one sample a minute with
\* three minutes between the third and the fourth sample.
ScenarioDates == << 0, 60, 120, 300, 360, 420 >>

\* The increasing list of the elements of a finite set of integers.
RECURSIVE SortedSeq(_)
SortedSeq(S) ==
    IF S = {} THEN << >>
    ELSE LET m == CHOOSE x \in S : \A y \in S : x <= y
         IN  << m >> \o SortedSeq(S \ {m})

\* The strictly increasing timestamp lists of at most MaxLen samples.
IncreasingDates == { SortedSeq(S) : S \in { T \in SUBSET Times : Cardinality(T) <= MaxLen } }

\* All timestamp lists of at most MaxAnyLen samples, ordered or not.
AnyDates == UNION { [1..n -> Times] : n \in 0..MaxAnyLen }

\* The value lists for a series of n samples: a ramp 1, 2, 3, ... and a
\* series that goes up and down.
Ramp(n) == [i \in 1..n |-> i]
Zigzag(n) == [i \in 1..n |-> 3 * (i % 2) + (i % 3)]
DataList(shape, n) == IF shape = "ramp" THEN Ramp(n) ELSE Zigzag(n)
Shapes == { "ramp", "zigzag" }

\* The increasing gap index lists a caller can hand to splitData for a
\* series of n samples.
GapLists(n) == { SortedSeq(S) : S \in SUBSET (0..(n - 1)) }

(***************************************************************************)
(* The state machine: the calls of the example of the module docstring     *)
(* (lines 14-20) and of main (lines 1071-1072).                            *)
(***************************************************************************)
InitWith(dateLists, shapes, thresholds, deltas, flags) ==
    /\ date \in dateLists
    /\ data \in { DataList(sh, Len(date)) : sh \in shapes }
    /\ gapThres \in thresholds
    /\ delta \in deltas
    /\ resample \in flags
    /\ gapIndex = << >>
    /\ gapSource = "none"
    /\ pc = "input"
    /\ slicedDates = << >>
    /\ slicedData = << >>
    /\ raised = FALSE
    /\ segGap = << >>
    /\ skipped = << >>
    /\ interpXp = << >>
    /\ name = << >>
    /\ streamData = << >>
    /\ streamRaised = FALSE

Init == InitWith(IncreasingDates, Shapes, 1..MaxThres, 1..MaxDelta, BOOLEAN)

\* gapIndex = detectGap(date, gapThres)
DetectGap ==
    /\ pc = "input"
    /\ gapIndex' = detectGap(date, gapThres)
    /\ gapSource' = "detectGap"
    /\ pc' = "gaps"
    /\ UNCHANGED <<date, data, gapThres, delta, resample, slicedDates,
                   slicedData, raised, segGap, skipped, interpXp,
                   name, streamData, streamRaised>>

\* The caller hands splitData a gap index list of its own.
SupplyGapIndex ==
    /\ pc = "input"
    /\ \E g \in GapLists(Len(date)) : gapIndex' = g
    /\ gapSource' = "caller"
    /\ pc' = "gaps"
    /\ UNCHANGED <<date, data, gapThres, delta, resample, slicedDates,
                   slicedData, raised, segGap, skipped, interpXp,
                   name, streamData, streamRaised>>

\* slicedDates, slicedData = splitData(date, data, gapIndex, delta, resample);
\* a call that raises returns nothing.
SplitData ==
    /\ pc = "gaps"
    /\ LET out == splitData(date, data, gapIndex, delta, resample)
       IN  /\ raised' = out.raised
           /\ slicedDates' = IF out.raised THEN << >> ELSE out.slicedDates
           /\ slicedData' = IF out.raised THEN << >> ELSE out.slicedData
           /\ segGap' = IF out.raised THEN << >> ELSE out.segGap
           /\ skipped' = out.skipped
           /\ interpXp' = out.interpXp
    /\ pc' = "split"
    /\ UNCHANGED <<date, data, gapThres, delta, resample, gapIndex, gapSource,
                   name, streamData, streamRaised>>

\* streamData = data2obspy(slicedDates, slicedData, name), reached when
\* splitData has returned; a call that raises returns nothing.
Data2ObspyWith(names) ==
    /\ pc = "split"
    /\ ~raised
    /\ \E nm \in names :
           LET out == data2obspy(slicedDates, slicedData, nm)
           IN  /\ name' = nm
               /\ streamRaised' = out.raised
               /\ streamData' = IF out.raised THEN << >> ELSE out.traces
    /\ pc' = "stream"
    /\ UNCHANGED <<date, data, gapThres, delta, resample, gapIndex, gapSource,
                   slicedDates, slicedData, raised, segGap, skipped, interpXp>>

Data2Obspy == Data2ObspyWith(MainNames)

Next == DetectGap \/ SupplyGapIndex \/ SplitData \/ Data2Obspy

Spec == Init /\ [][Next]_vars

\* detectGap alone, on timestamp lists in any order.
InitGap == InitWith(AnyDates, {"ramp"}, 0..MaxThres, {1}, {FALSE})

NextGap == DetectGap

SpecGap == InitGap /\ [][NextGap]_vars

\* The pipeline on evenly spaced series, with data2obspy given any name.
EvenDates == { [i \in 1..n |-> i - 1] : n \in 2..MaxLen }

InitName == InitWith(EvenDates, {"ramp"}, {1}, {1}, BOOLEAN)

Data2ObspyAnyName == Data2ObspyWith(AnyNames)

NextName == DetectGap \/ SplitData \/ Data2ObspyAnyName

SpecName == InitName /\ [][NextName]_vars

\* The pipeline on the series of the end-to-end scenario, with the gap
\* threshold and the delta of main.
InitScenario ==
    InitWith({ScenarioDates}, {"ramp"}, {MainGapThres}, {MainDelta}, BOOLEAN)

SpecScenario == InitScenario /\ [][Next]_vars

(***************************************************************************)
(* The runs of the series as the gap indices define them (0-based sample   *)
(* indices): run k, 0 <= k <= M, starts after gap k-1 (at 0 for k = 0) and *)
(* ends at gap k (at the last sample for k = M).                           *)
(***************************************************************************)
N == Len(date)
M == Len(gapIndex)
RunFirst(k) == IF k = 0 THEN 0 ELSE gapIndex[k] + 1
RunLast(k) == IF k < M THEN gapIndex[k + 1] ELSE N - 1
RunSize(k) == RunLast(k) - RunFirst(k) + 1
RunOf(s, k) == SubSeq(s, RunFirst(k) + 1, RunLast(k) + 1)

Returned == pc = "split" /\ ~raised

\* The sum of a sequence of numbers.
RECURSIVE SumSeq(_)
SumSeq(s) == IF Len(s) = 0 THEN 0 ELSE Head(s) + SumSeq(Tail(s))

(***************************************************************************)
(* C1: detectGap returns, in increasing order and without duplicates,      *)
(* exactly the indices i in 0..n-2 with date[i+1] - date[i] > gapThres,    *)
(* for timestamp lists in any order.                                       *)
(***************************************************************************)
C1_GapIndices ==
    (pc = "gaps" /\ gapSource = "detectGap") =>
        /\ \A i \in 1..(M - 1) : gapIndex[i] < gapIndex[i + 1]
        /\ { gapIndex[i] : i \in 1..M } =
               { i \in 0..(N - 2) : date[i + 2] - date[i + 1] > gapThres }

\* Two gaps are reported and a difference equal to the threshold is not.
C1_Witness ==
    /\ pc = "gaps" /\ gapSource = "detectGap"
    /\ M = 2 /\ N = 4
    /\ \E i \in 1..(N - 1) : date[i + 1] - date[i] = gapThres

(***************************************************************************)
(* C2: with resample=False every segment cut from a run of at least 2      *)
(* samples is exactly its run: the segment in front of gap k is the        *)
(* samples g[k-1]+1 .. g[k] inclusive (from 0 for k = 0) and the final     *)
(* segment runs from g[m-1]+1 to the end of the series.                    *)
(***************************************************************************)
C2_SegmentBounds ==
    (Returned /\ ~resample) =>
        \A j \in 1..Len(slicedDates) :
            RunSize(segGap[j]) >= 2 =>
                /\ slicedDates[j] = RunOf(date, segGap[j])
                /\ slicedData[j] = RunOf(data, segGap[j])

(***************************************************************************)
(* C3: with resample=False the trailing segment (after the last gap, or    *)
(* the whole series), cut from a run of at least 2 samples, reaches the    *)
(* true last index: the last sample of the series is the last sample of    *)
(* the last emitted segment.                                               *)
(***************************************************************************)
TrailingEmitted == Len(segGap) > 0 /\ segGap[Len(segGap)] = M

C3_TrailingKeepsLast ==
    (Returned /\ ~resample /\ TrailingEmitted /\ RunSize(M) >= 2) =>
        LET seg == slicedDates[Len(slicedDates)]
            val == slicedData[Len(slicedData)]
        IN  /\ Len(seg) > 0 /\ seg[Len(seg)] = date[N]
            /\ Len(val) > 0 /\ val[Len(val)] = data[N]

(***************************************************************************)
(* C4: for both resample settings no run of 0 or 1 source samples is put   *)
(* into the output: every emitted segment comes from a run of at least 2   *)
(* samples.                                                                *)
(***************************************************************************)
C4_NoShortRunEmitted ==
    Returned => \A j \in 1..Len(segGap) : RunSize(segGap[j]) >= 2

(***************************************************************************)
(* C5: every call of the interpolation gets at least 2 source points.      *)
(***************************************************************************)
C5_InterpAtLeastTwo ==
    pc = "split" => \A i \in 1..Len(interpXp) : Len(interpXp[i]) >= 2

(***************************************************************************)
(* C6: segment coverage: with resample=False and gapIndex returned by      *)
(* detectGap, the sample counts of the emitted segments plus the sample    *)
(* counts of the dropped runs add up to len(date).                         *)
(***************************************************************************)
C6_Coverage ==
    (Returned /\ ~resample /\ gapSource = "detectGap") =>
        LET emitted == [j \in 1..Len(slicedDates) |-> Len(slicedDates[j])]
            dropped == [i \in 1..Len(skipped) |-> RunSize(skipped[i])]
        IN  SumSeq(emitted) + SumSeq(dropped) = N

(***************************************************************************)
(* C7 as stated: for every series with an empty gapIndex, splitData with   *)
(* resample=False returns exactly one segment, the entire input series.    *)
(***************************************************************************)
C7_NoGapOneSegment ==
    (Returned /\ ~resample /\ M = 0) =>
        slicedDates = << date >> /\ slicedData = << data >>

(***************************************************************************)
(* C7 amended: for every series that is not empty and has an empty         *)
(* gapIndex, splitData with resample=False returns exactly one segment,    *)
(* the entire input series; for the empty series it returns no segment.    *)
(***************************************************************************)
C7_NoGapOneSegmentNonEmpty ==
    (pc = "split" /\ ~resample /\ M = 0) =>
        /\ ~raised
        /\ N > 0 => slicedDates = << date >> /\ slicedData = << data >>
        /\ N = 0 => slicedDates = << >> /\ slicedData = << >>

\* detectGap found no gap in a series of several samples.
C7_Witness ==
    /\ pc = "split" /\ ~resample /\ gapSource = "detectGap"
    /\ M = 0 /\ N >= 3 /\ Len(slicedDates) = 1

(***************************************************************************)
(* C8: for the empty series detectGap returns no gap index and splitData   *)
(* returns two empty lists, without raising, for both resample settings.   *)
(***************************************************************************)
C8_EmptySeries ==
    N = 0 =>
        /\ (pc \in {"gaps", "split"} /\ gapSource = "detectGap") => gapIndex = << >>
        /\ pc = "split" => (~raised /\ slicedDates = << >> /\ slicedData = << >>)

\* The whole pipeline has run on the empty series with resample=True.
C8_Witness ==
    N = 0 /\ pc = "split" /\ resample /\ gapSource = "detectGap"

(***************************************************************************)
(* The grid of a resampled segment against the first and last timestamp    *)
(* of its run.                                                             *)
(***************************************************************************)
FirstOf(k) == date[RunFirst(k) + 1]
LastOf(k) == date[RunLast(k) + 1]
Duration(k) == LastOf(k) - FirstOf(k)

\* The least n with n * delta >= d, for d >= 0.
Ceiling(d) == CHOOSE n \in 0..d : n * delta >= d /\ (n = 0 \/ (n - 1) * delta < d)
\* The greatest n with n * delta <= d, for d >= 0.
Floor(d) == CHOOSE n \in 0..d : n * delta <= d /\ (n + 1) * delta > d

(***************************************************************************)
(* C9: with resample=True the grid of every emitted segment starts at the  *)
(* first timestamp of its run, advances by exactly delta, stays strictly   *)
(* below the last timestamp of the run and has ceil((last - first)/delta)  *)
(* points; the run of the trailing segment reaches the last sample.        *)
(***************************************************************************)
C9_Grid ==
    (Returned /\ resample) =>
        \A j \in 1..Len(slicedDates) :
            LET grid == slicedDates[j]
                k    == segGap[j]
            IN  /\ Len(grid) = Ceiling(Duration(k))
                /\ \A i \in 1..Len(grid) :
                       /\ grid[i] = FirstOf(k) + (i - 1) * delta
                       /\ grid[i] < LastOf(k)

\* A trailing segment and a segment in front of a gap were both resampled,
\* the trailing one over a duration that is no multiple of delta.
C9_Witness ==
    /\ Returned /\ resample /\ M > 0
    /\ Len(slicedDates) >= 2
    /\ segGap[Len(segGap)] = M
    /\ Duration(M) % delta # 0
    /\ Len(slicedDates[Len(slicedDates)]) >= 2

(***************************************************************************)
(* C10 as stated: a resampled segment of duration D = last - first has     *)
(* floor(D/delta) points, all within [first, last).                        *)
(***************************************************************************)
C10_FloorPoints ==
    (Returned /\ resample) =>
        \A j \in 1..Len(slicedDates) :
            /\ Len(slicedDates[j]) = Floor(Duration(segGap[j]))
            /\ \A i \in 1..Len(slicedDates[j]) :
                   /\ FirstOf(segGap[j]) <= slicedDates[j][i]
                   /\ slicedDates[j][i] < LastOf(segGap[j])

(***************************************************************************)
(* C10 amended: a resampled segment of duration D = last - first has       *)
(* floor(D/delta) points when D is a multiple of delta and                 *)
(* floor(D/delta) + 1 points when it is not (ceil(D/delta) in both cases), *)
(* all within [first, last).                                               *)
(***************************************************************************)
C10_CeilPoints ==
    (Returned /\ resample) =>
        \A j \in 1..Len(slicedDates) :
            LET d == Duration(segGap[j])
            IN  /\ Len(slicedDates[j]) =
                       Floor(d) + (IF d % delta = 0 THEN 0 ELSE 1)
                /\ \A i \in 1..Len(slicedDates[j]) :
                       /\ FirstOf(segGap[j]) <= slicedDates[j][i]
                       /\ slicedDates[j][i] < LastOf(segGap[j])

\* A segment in front of a gap was resampled over a duration that is no
\* multiple of delta, and one over a duration that is.
C10_Witness ==
    /\ Returned /\ resample
    /\ \E j \in 1..Len(slicedDates) :
           segGap[j] < M /\ Duration(segGap[j]) % delta # 0
    /\ \E j \in 1..Len(slicedDates) :
           Duration(segGap[j]) % delta = 0 /\ Len(slicedDates[j]) >= 2

(***************************************************************************)
(* C11: with resample=True every grid timestamp lies within [first, last]  *)
(* of the samples handed to the interpolation, and every output value is   *)
(* the linear interpolation of the samples of the segment's own run at     *)
(* its grid timestamp: nothing is extrapolated or clamped to an end value. *)
(***************************************************************************)
\* v (a fraction) is the value at time t of the line through two
\* neighbouring samples of run k that enclose t.
LinearOnRun(k, t, v) ==
    \E a \in (RunFirst(k) + 1)..RunLast(k) :
        /\ date[a] <= t /\ t <= date[a + 1]
        /\ v.num * (date[a + 1] - date[a]) =
               v.den * (data[a] * (date[a + 1] - date[a])
                          + (data[a + 1] - data[a]) * (t - date[a]))

C11_NoExtrapolation ==
    (Returned /\ resample) =>
        \A j \in 1..Len(slicedDates) :
            LET xp == interpXp[j]
            IN  \A i \in 1..Len(slicedDates[j]) :
                    /\ xp[1] <= date2num(slicedDates[j][i])
                    /\ date2num(slicedDates[j][i]) <= xp[Len(xp)]
                    /\ LinearOnRun(segGap[j], slicedDates[j][i], slicedData[j][i])

(***************************************************************************)
(* C12: with resample=True the value at the first grid timestamp of every  *)
(* emitted segment equals the first original value of its run exactly.     *)
(***************************************************************************)
C12_FirstValue ==
    (Returned /\ resample) =>
        \A j \in 1..Len(slicedData) :
            Len(slicedData[j]) > 0 =>
                slicedData[j][1] = [num |-> data[RunFirst(segGap[j]) + 1], den |-> 1]

\* A segment in front of a gap and the trailing segment were resampled to
\* several points each, with values that differ inside the segment.
C12_Witness ==
    /\ Returned /\ resample /\ M > 0
    /\ Len(slicedData) = 2 /\ segGap = << 0, M >>
    /\ \A j \in 1..2 : Len(slicedData[j]) >= 2 /\ slicedData[j][1] # slicedData[j][2]

(***************************************************************************)
(* C13: with resample=False every emitted segment is its raw run of        *)
(* source samples unchanged: as many samples as the run has, each with the *)
(* timestamp and the value of the source sample, none added, removed or    *)
(* altered.                                                                *)
(***************************************************************************)
C13_RawUnchanged ==
    (Returned /\ ~resample) =>
        \A j \in 1..Len(slicedDates) :
            LET k == segGap[j]
            IN  RunSize(k) >= 2 =>
                    /\ Len(slicedDates[j]) = RunSize(k)
                    /\ Len(slicedData[j]) = RunSize(k)
                    /\ \A i \in 1..RunSize(k) :
                           /\ slicedDates[j][i] = date[RunFirst(k) + i]
                           /\ slicedData[j][i] = data[RunFirst(k) + i]

(***************************************************************************)
(* C14: end-to-end scenario, timestamps [0,60,120,300,360,420], values     *)
(* [1,2,3,4,5,6], gap threshold 120, delta 60: detectGap reports a gap at  *)
(* index 2 only, splitData yields two segments of 3 source samples each,   *)
(* and with resample=True each segment has the 3 values of its samples,    *)
(* [1,2,3] and [4,5,6].                                                    *)
(***************************************************************************)
Whole(v) == [num |-> v, den |-> 1]

C14_Scenario ==
    (date = ScenarioDates /\ data = Ramp(6) /\ gapThres = MainGapThres
        /\ delta = MainDelta /\ gapSource = "detectGap") =>
        /\ pc \in {"gaps", "split", "stream"} => gapIndex = << 2 >>
        /\ pc \in {"split", "stream"} =>
               /\ ~raised
               /\ Len(slicedData) = 2
               /\ ~resample =>
                      /\ slicedDates = << << 0, 60, 120 >>, << 300, 360, 420 >> >>
                      /\ slicedData = << << 1, 2, 3 >>, << 4, 5, 6 >> >>
               /\ resample =>
                      slicedData = << << Whole(1), Whole(2), Whole(3) >>,
                                      << Whole(4), Whole(5), Whole(6) >> >>

(***************************************************************************)
(* The '$'-separated tokens of the name, by the positions of the '$'.      *)
(***************************************************************************)
Dollars == { i \in 1..Len(name) : name[i] = "$" }
TokenCount == Cardinality(Dollars) + 1
\* The position of the t-th '$' (0 before the first token, Len(name) + 1
\* after the last).
DollarAt(t) ==
    IF t = 0 THEN 0
    ELSE IF t = TokenCount THEN Len(name) + 1
    ELSE CHOOSE p \in Dollars : Cardinality({ q \in Dollars : q <= p }) = t
Token(t) == SubSeq(name, DollarAt(t - 1) + 1, DollarAt(t) - 1)

Streamed == pc = "stream" /\ ~streamRaised

(***************************************************************************)
(* C15: identity parsing in data2obspy: 4 '$'-separated tokens give        *)
(* station, channel, network, location in that order; with 3 tokens        *)
(* location is empty; with 2 tokens network and location are empty; with   *)
(* no '$' station is the whole name and the other three fields are empty.  *)
(***************************************************************************)
C15_IdentityParsing ==
    (Streamed /\ TokenCount <= 4) =>
        \A k \in 1..Len(streamData) :
            LET tr == streamData[k]
                field(t) == IF t <= TokenCount THEN Token(t) ELSE << >>
            IN  /\ tr.station = field(1)
                /\ tr.channel = field(2)
                /\ tr.network = field(3)
                /\ tr.location = field(4)
                /\ TokenCount = 1 => tr.station = name

\* A trace was labelled from a name of three tokens that all differ.
C15_Witness ==
    /\ Streamed /\ Len(streamData) > 0
    /\ TokenCount = 3
    /\ Token(1) # Token(2) /\ Token(2) # Token(3) /\ Token(1) # Token(3)
    /\ \A t \in 1..3 : Len(Token(t)) > 0

(***************************************************************************)
(* C16: the metadata of every trace comes from its own segment: delta is   *)
(* the rounded difference of the first two timestamps of the segment,      *)
(* starttime its first timestamp and npts the number of its values,        *)
(* whether the segment was resampled or passed through raw.                *)
(***************************************************************************)
C16_TraceMetadata ==
    Streamed =>
        /\ Len(streamData) = Len(slicedDates)
        /\ \A k \in 1..Len(streamData) :
               /\ streamData[k].delta = slicedDates[k][2] - slicedDates[k][1]
               /\ streamData[k].starttime = slicedDates[k][1]
               /\ streamData[k].npts = Len(slicedData[k])

\* A raw segment of three samples whose spacing is not the configured
\* delta, and is not the same all along, became a trace.
C16_Witness ==
    /\ Streamed /\ ~resample
    /\ \E k \in 1..Len(streamData) :
           /\ streamData[k].delta # delta
           /\ Len(slicedDates[k]) >= 3
           /\ slicedDates[k][3] - slicedDates[k][2] # streamData[k].delta

(***************************************************************************)
(* C17: splitData emits its segments in chronological order, every         *)
(* timestamp of a segment earlier than every timestamp of the segments     *)
(* after it, and data2obspy emits one trace per segment in the order of    *)
(* the segment list.                                                       *)
(***************************************************************************)
C17_Ordering ==
    /\ Returned =>
           \A j \in 1..Len(slicedDates) : \A l \in (j + 1)..Len(slicedDates) :
               \A a \in 1..Len(slicedDates[j]) : \A b \in 1..Len(slicedDates[l]) :
                   slicedDates[j][a] < slicedDates[l][b]
    /\ Streamed =>
           /\ Len(streamData) = Len(slicedData)
           /\ \A k \in 1..Len(streamData) :
                  /\ streamData[k].data = slicedData[k]
                  /\ streamData[k].starttime = slicedDates[k][1]

\* Two segments cut at a detected gap became two traces.
C17_Witness ==
    /\ Streamed /\ Len(streamData) = 2
    /\ gapSource = "detectGap" /\ M = 1

(***************************************************************************)
(* C18: with gapIndex returned by detectGap and resample=False every       *)
(* emitted segment is a contiguous piece of the series, in the original    *)
(* order, in which no two consecutive samples are more than gapThres       *)
(* apart.                                                                  *)
(***************************************************************************)
C18_ContiguousNoGap ==
    (Returned /\ ~resample /\ gapSource = "detectGap") =>
        \A j \in 1..Len(slicedDates) :
            /\ \E a \in 1..(N + 1) : \E b \in 0..N :
                   /\ slicedDates[j] = SubSeq(date, a, b)
                   /\ slicedData[j] = SubSeq(data, a, b)
            /\ \A i \in 1..(Len(slicedDates[j]) - 1) :
                   slicedDates[j][i + 1] - slicedDates[j][i] <= gapThres

\* Two gaps were detected, and the segment between them and the trailing
\* segment were emitted.
C18_Witness ==
    /\ Returned /\ ~resample /\ gapSource = "detectGap"
    /\ M = 2
    /\ \E j \in 1..Len(segGap) : segGap[j] = 1 /\ Len(slicedDates[j]) >= 2
    /\ \E j \in 1..Len(segGap) : segGap[j] = 2 /\ Len(slicedDates[j]) >= 1

(***************************************************************************)
(* C19: for a strictly increasing series, gapIndex returned by detectGap   *)
(* and both resample settings, every segment returned by splitData has at  *)
(* least 2 timestamps, so that detectGap -> splitData -> data2obspy ends   *)
(* without error with exactly one trace per segment.                       *)
(***************************************************************************)
C19_PipelineCompletes ==
    gapSource = "detectGap" =>
        /\ pc \in {"split", "stream"} =>
               /\ ~raised
               /\ \A j \in 1..Len(slicedDates) : Len(slicedDates[j]) >= 2
        /\ pc = "stream" =>
               /\ ~streamRaised
               /\ Len(streamData) = Len(slicedDates)

(***************************************************************************)
(* C20: the two lists returned by splitData are aligned, for both          *)
(* resample settings: as many timestamp lists as value lists, and the      *)
(* k-th timestamp list as long as the k-th value list.                     *)
(***************************************************************************)
C20_Aligned ==
    pc \in {"split", "stream"} =>
        /\ Len(slicedDates) = Len(slicedData)
        /\ \A k \in 1..Len(slicedDates) : Len(slicedDates[k]) = Len(slicedData[k])

\* Two segments were resampled, one to fewer and one to more points than
\* interp was given source samples.
C20_Witness ==
    /\ Returned /\ resample /\ Len(slicedDates) >= 2
    /\ \E j \in 1..Len(slicedDates) : Len(slicedDates[j]) < Len(interpXp[j])
    /\ \E j \in 1..Len(slicedDates) : Len(slicedDates[j]) > Len(interpXp[j])

(***************************************************************************)
(* C21: for a name with four or more '$' (five or more tokens) no token is *)
(* assigned by position: station is the whole name and channel, network    *)
(* and location are empty.                                                 *)
(***************************************************************************)
C21_ManyTokens ==
    (Streamed /\ TokenCount >= 5) =>
        \A k \in 1..Len(streamData) :
            /\ streamData[k].station = name
            /\ streamData[k].channel = << >>
            /\ streamData[k].network = << >>
            /\ streamData[k].location = << >>

\* A trace was labelled from a name of five tokens, the first two of them
\* not empty.
C21_Witness ==
    /\ Streamed /\ Len(streamData) > 0
    /\ TokenCount = 5
    /\ Len(Token(1)) > 0 /\ Len(Token(2)) > 0

====
